---- MODULE Spec2Model ----
(***************************************************************************)
(* ProxyChooser (src/index.js): address normalisation, the connectivity    *)
(* probe and the getProxy selection loop.                                  *)
(*                                                                         *)
(* Strings are sequences of one-character strings, so that the regular     *)
(* expressions, split() and the template literals of the source are        *)
(* computed character by character.  The value undefined is the empty      *)
(* sequence: the source only ever tests it with `!proxy`, which is also    *)
(* true of the empty string.                                               *)
(***************************************************************************)
EXTENDS Naturals, Integers, Sequences, FiniteSets, TLC

\* ---------------------------------------------------------------- bounds
MaxList == 2
MaxProbes == 4
MaxTimeoutCfg == 50

\* ------------------------------------------------------- string helpers
Undefined == << >>

Truthy(s) == s # << >>

Digit == {"0", "1", "2", "3", "4", "5", "6", "7", "8", "9"}

\* \w restricted to the letters that occur in the modelled candidates
WordChar == Digit \cup {"a", "b", "c", "p", "u", "z", "_"}

WhiteSpace == {" "}

AllIn(s, S) == \A i \in DOMAIN s : s[i] \in S

NoneIn(s, S) == \A i \in DOMAIN s : s[i] \notin S

Includes(seq, x) == \E i \in DOMAIN seq : seq[i] = x

\* position of the first occurrence of sep in s, 0 when absent
IndexOf(s, sep) ==
    IF \E i \in DOMAIN s : s[i] = sep
    THEN CHOOSE i \in DOMAIN s : s[i] = sep /\ \A j \in 1..(i - 1) : s[j] # sep
    ELSE 0

\* String.prototype.split(sep) for a one-character separator
RECURSIVE Split(_, _)
Split(s, sep) ==
    LET k == IndexOf(s, sep)
    IN IF k = 0
       THEN << s >>
       ELSE << SubSeq(s, 1, k - 1) >> \o Split(SubSeq(s, k + 1, Len(s)), sep)

\* value of a non-empty digit string
RECURSIVE ToNumber(_)
ToNumber(s) ==
    IF s = << >>
    THEN 0
    ELSE LET d == s[Len(s)]
             v == CHOOSE n \in 0..9 : ToString(n) = d
         IN 10 * ToNumber(SubSeq(s, 1, Len(s) - 1)) + v

\* ------------------------------------------------------ modelled inputs
IpA == <<"1", ".", "1", ".", "1", ".", "1">>
IpB == <<"2", ".", "2", ".", "2", ".", "2">>

CandIp == IpA \o <<":", "8">>
CandHostA == <<"a", ":", "8">>
CandAuth == <<"u", ":", "p", "@", "c", ":", "8">>
CandBad == <<"a", ":", "b", ":", "c">>
CandNoDns == <<"z", ":", "8">>

Candidates == {CandIp, CandHostA, CandAuth, CandBad, CandNoDns}

\* ---------------------------------------------------- Address Normalizer
\* /^[\w.]+:\d+$/
directPattern(s) ==
    \E k \in DOMAIN s :
        /\ s[k] = ":"
        /\ k > 1 /\ k < Len(s)
        /\ AllIn(SubSeq(s, 1, k - 1), WordChar \cup {"."})
        /\ AllIn(SubSeq(s, k + 1, Len(s)), Digit)

\* /^([^:@]+):([^:@]+)@([^\s@:]+):(\d+)$/
authPattern(s) ==
    \E i, j, k \in DOMAIN s :
        /\ 1 < i /\ i + 1 < j /\ j + 1 < k /\ k < Len(s)
        /\ s[i] = ":" /\ s[j] = "@" /\ s[k] = ":"
        /\ NoneIn(SubSeq(s, 1, i - 1), {":", "@"})
        /\ NoneIn(SubSeq(s, i + 1, j - 1), {":", "@"})
        /\ NoneIn(SubSeq(s, j + 1, k - 1), WhiteSpace \cup {"@", ":"})
        /\ AllIn(SubSeq(s, k + 1, Len(s)), Digit)

proxyType(proxy) ==
    IF ~Truthy(proxy) THEN "undefined"
    ELSE IF directPattern(proxy) THEN "direct"
    ELSE IF authPattern(proxy) THEN "auth"
    ELSE "invalid"

\* one octet of hasNumber: 25[0-5] | 2[0-4]\d | 1\d\d | [1-9]\d | \d
Octet(s) ==
    /\ Len(s) \in 1..3
    /\ AllIn(s, Digit)
    /\ Len(s) > 1 => s[1] # "0"
    /\ ToNumber(s) <= 255

\* /^((25[0-5]|(2[0-4]|1\d|[1-9]|)\d)(\.(?!$)|$)){4}$/
hasNumber(host) ==
    LET parts == Split(host, ".")
    IN Len(parts) = 4 /\ \A i \in 1..4 : Octet(parts[i])

\* dns.lookup: the address of a host name, Undefined when it does not resolve
dnsLookup(host) ==
    CASE host = <<"a">> -> IpA
      [] host = <<"c">> -> IpB
      [] OTHER -> Undefined

Ok(v) == [ok |-> TRUE, value |-> v, error |-> "none"]

Throw(e) == [ok |-> FALSE, value |-> Undefined, error |-> e]

convertProxy(proxy) ==
    IF ~Truthy(proxy) THEN Throw("ProxyUndefined")
    ELSE
    LET type == proxyType(proxy)
        atParts == Split(proxy, "@")
        authParts == Split(atParts[1], ":")
        hostParts == IF type = "auth" THEN Split(atParts[2], ":")
                                      ELSE Split(proxy, ":")
        proxyHost == hostParts[1]
        proxyPort == hostParts[2]
        resolved == IF hasNumber(proxyHost) THEN proxyHost ELSE dnsLookup(proxyHost)
    IN IF type \notin {"direct", "auth"} THEN Throw("InvalidFormat")
       ELSE IF ~Truthy(resolved) THEN Throw("ResolutionFailure")
       ELSE IF type = "auth"
            THEN Ok(authParts[1] \o <<":">> \o authParts[2] \o <<"@">>
                    \o resolved \o <<":">> \o proxyPort)
            ELSE Ok(resolved \o <<":">> \o proxyPort)

\* the addresses the modelled candidates normalise to
Normalized == {convertProxy(c).value : c \in {d \in Candidates : convertProxy(d).ok}}

\* convertProxy tabulated over the strings the modelled calls pass to it
Converted == [p \in Candidates \cup Normalized \cup {Undefined} |-> convertProxy(p)]

\* convertProxy(proxy) reaches dns.lookup: the host it parsed is not an address
reachesLookup(proxy) ==
    /\ Truthy(proxy)
    /\ proxyType(proxy) \in {"direct", "auth"}
    /\ LET hostPart == IF proxyType(proxy) = "auth"
                       THEN Split(proxy, "@")[2] ELSE proxy
       IN ~hasNumber(Split(hostPart, ":")[1])

LooksUp == [p \in Candidates \cup Normalized \cup {Undefined} |-> reachesLookup(p)]

\* --------------------------------------------------------------- options
\* JavaScript values of the option fields, tagged with their typeof
JsUndefined == [type |-> "undefined"]

JsBool(b) == [type |-> "boolean", bool |-> b]

JsNum(n) == [type |-> "number", num |-> n]

JsStr(s) == [type |-> "string", str |-> s]

typeof(v) == v.type

DefaultMaxTimeout == 1000

\* the literal the constructor installs when no options are passed
ConstructorDefaults ==
    [verbose |-> JsBool(FALSE),
     maxTimeout |-> JsNum(DefaultMaxTimeout),
     verboseIdentifier |-> JsStr("[proxyChooser]"),
     pingUrl |-> JsStr("http://myexternalip.com/raw"),
     forceRetry |-> JsBool(FALSE)]

NoFields ==
    [verbose |-> JsUndefined,
     maxTimeout |-> JsUndefined,
     verboseIdentifier |-> JsUndefined,
     pingUrl |-> JsUndefined,
     forceRetry |-> JsUndefined]

\* option objects a caller passes to the constructor
OptionChoices ==
    { ConstructorDefaults,
      [NoFields EXCEPT !.maxTimeout = JsNum(MaxTimeoutCfg), !.forceRetry = JsBool(TRUE)],
      [NoFields EXCEPT !.forceRetry = JsBool(TRUE), !.verbose = JsStr("yes")],
      [NoFields EXCEPT !.maxTimeout = JsStr("50")] }

\* the defaulting part of validateOptions
FillDefaults(o) ==
    [verbose |-> IF typeof(o.verbose) = "undefined" THEN JsBool(FALSE) ELSE o.verbose,
     maxTimeout |-> IF typeof(o.maxTimeout) = "undefined"
                    THEN JsNum(DefaultMaxTimeout) ELSE o.maxTimeout,
     verboseIdentifier |-> IF typeof(o.verboseIdentifier) = "undefined"
                           THEN JsStr("[proxyChooser]") ELSE o.verboseIdentifier,
     pingUrl |-> IF typeof(o.pingUrl) = "undefined"
                 THEN JsStr("http://myexternalip.com/raw") ELSE o.pingUrl,
     forceRetry |-> IF typeof(o.forceRetry) = "undefined"
                    THEN JsBool(FALSE) ELSE o.forceRetry]

\* variant: the type check forgets the verbose field
OptionsOk_VerboseUnchecked(o) ==
    /\ typeof(o.maxTimeout) = "number"
    /\ typeof(o.verboseIdentifier) = "string"
    /\ typeof(o.pingUrl) = "string"
    /\ typeof(o.forceRetry) = "boolean"

\* the type check of validateOptions, on the defaulted options
OptionsOk(o) ==
    /\ typeof(o.maxTimeout) = "number"
    /\ typeof(o.verbose) = "boolean"
    /\ typeof(o.verboseIdentifier) = "string"
    /\ typeof(o.pingUrl) = "string"
    /\ typeof(o.forceRetry) = "boolean"

\* validateOptions: the options it leaves behind and whether it returns
validateOptions(o) ==
    LET filled == FillDefaults(o)
    IN [options |-> filled, ok |-> OptionsOk(filled)]

\* `if (this.#options.forceRetry)`: truthiness of the field
ForceRetryOn(o) ==
    CASE typeof(o.forceRetry) = "boolean" -> o.forceRetry.bool
      [] typeof(o.forceRetry) = "undefined" -> FALSE
      [] OTHER -> TRUE

\* ----------------------------------------------------------------- state
VARIABLES
    proxyList,   \* #proxyList: raw candidates
    cache,       \* #cache: normalized addresses already drawn
    options,     \* #options
    working,     \* environment: the addresses that answer within the budget
    gp_pc,       \* getProxy: position of the (tail-recursive) call
    gp_drawn,    \* getProxy: the raw candidate drawn last
    gp_result,   \* getProxy: the returned address
    gp_error,    \* getProxy: the error it failed with
    probes,      \* testProxy calls made by the current getProxy call
    tp_pc,       \* testProxy: position
    tp_caller,   \* testProxy: "user" or "getProxy"
    tp_arg,      \* testProxy: its argument
    tp_proxy,    \* testProxy: the converted address the request goes through
    request,     \* the axios request: none, inflight, completed, failed, aborted
    elapsed,     \* Date.now() - startTime while the request is in flight
    tp_result,   \* testProxy: returned boolean
    tp_error,    \* testProxy: the error it failed with
    tp_diag,     \* testProxy: the reason passed to the verbose log line
    silent,      \* environment: the request in flight will never be answered
    net,         \* network activity of the running call: "dns", "http"
    op,          \* the synchronous operation that has just returned
    ret,         \* its outcome: "true", "false" or "threw"
    ping_pc,     \* getPing: position
    ping_ms      \* getPing: the returned duration

vars == << proxyList, cache, options, working, gp_pc, gp_drawn, gp_result, gp_error,
           probes, tp_pc, tp_caller, tp_arg, tp_proxy, request, elapsed, tp_result,
           tp_error, tp_diag, silent, net, op, ret, ping_pc, ping_ms >>

gpVars == << gp_pc, gp_drawn, gp_result, gp_error, probes >>

tpVars == << tp_pc, tp_caller, tp_arg, tp_proxy, request, elapsed, tp_result,
             tp_error, tp_diag, silent >>

syncVars == << op, ret >>

pingVars == << ping_pc, ping_ms >>

RECURSIVE ListsUpTo(_)
ListsUpTo(n) ==
    IF n = 0
    THEN {<< >>}
    ELSE LET shorter == ListsUpTo(n - 1)
         IN shorter \cup {Append(l, c) : l \in {m \in shorter : Len(m) = n - 1},
                                         c \in Candidates}

CandidateLists == ListsUpTo(MaxList)

\* no call is running: the caller serialises the operations of an instance
Quiet == gp_pc = "idle" /\ tp_pc = "idle" /\ ping_pc = "idle" /\ op = "none"

\* the records of a finished call, dropped when its caller has taken the result
GpCleared ==
    /\ gp_pc' = "idle"
    /\ gp_drawn' = Undefined
    /\ gp_result' = Undefined
    /\ gp_error' = "none"
    /\ probes' = 0

TpCleared ==
    /\ tp_pc' = "idle"
    /\ tp_caller' = "none"
    /\ tp_arg' = Undefined
    /\ tp_proxy' = Undefined
    /\ request' = "none"
    /\ elapsed' = 0
    /\ tp_result' = FALSE
    /\ tp_error' = "none"
    /\ tp_diag' = "none"
    /\ silent' = FALSE

Init ==
    /\ proxyList \in CandidateLists
    /\ cache = << >>
    /\ options \in OptionChoices
    /\ working \in SUBSET Normalized
    /\ gp_pc = "idle"
    /\ gp_drawn = Undefined
    /\ gp_result = Undefined
    /\ gp_error = "none"
    /\ probes = 0
    /\ tp_pc = "idle"
    /\ tp_caller = "none"
    /\ tp_arg = Undefined
    /\ tp_proxy = Undefined
    /\ request = "none"
    /\ elapsed = 0
    /\ tp_result = FALSE
    /\ tp_error = "none"
    /\ tp_diag = "none"
    /\ silent = FALSE
    /\ net = {}
    /\ op = "none"
    /\ ret = "none"
    /\ ping_pc = "idle"
    /\ ping_ms = 0

\* ------------------------------------------------ Configuration & State
\* variant: resetList reports success whatever the list held
ResetListReturn_Always(list) == "true"

\* `this.#proxyList?.length != 0` decides what resetList returns
ResetListReturn(list) == IF Len(list) # 0 THEN "true" ELSE "false"

\* variant: resetList clears the cache together with the list
resetList_ClearsCache ==
    /\ Quiet
    /\ proxyList' = << >>
    /\ cache' = << >>
    /\ op' = "resetList"
    /\ ret' = ResetListReturn(proxyList)
    /\ UNCHANGED << options, working, gpVars, tpVars, net, pingVars >>

resetList ==
    /\ Quiet
    /\ proxyList' = << >>
    /\ op' = "resetList"
    /\ ret' = ResetListReturn(proxyList)
    /\ UNCHANGED << cache, options, working, gpVars, tpVars, net, pingVars >>

\* arguments of addProxies: arrays of candidates, undefined, and a string
ArrayArg(l) == [kind |-> "array", items |-> l]

AddArgs ==
    {ArrayArg(l) : l \in CandidateLists}
        \cup {[kind |-> "undefined", items |-> << >>],
              [kind |-> "string", items |-> << >>]}

\* typeof proxies == "undefined" || !Array.isArray(proxies) || proxies.length === 0
Rejected(arg) == arg.kind = "undefined" \/ arg.kind # "array" \/ Len(arg.items) = 0

\* variant: the new candidates are put in front of the list
Appended_InFront(list, proxies) == proxies \o list

\* [...this.#proxyList, ...proxies]
Appended(list, proxies) == list \o proxies

\* addProxies(arg): validateOptions runs first and may throw
addProxies(arg) ==
    /\ Quiet
    /\ Len(proxyList) + Len(arg.items) <= MaxList
    /\ LET v == validateOptions(options)
       IN /\ options' = v.options
          /\ IF ~v.ok
             THEN proxyList' = proxyList /\ ret' = "threw"
             ELSE IF Rejected(arg)
             THEN proxyList' = proxyList /\ ret' = "false"
             ELSE proxyList' = Appended(proxyList, arg.items) /\ ret' = "true"
    /\ op' = "addProxies"
    /\ UNCHANGED << cache, working, gpVars, tpVars, net, pingVars >>

\* variant: resetCache reports success without clearing the cache
resetCache_Keeps ==
    /\ Quiet
    /\ cache' = cache
    /\ op' = "resetCache"
    /\ ret' = "true"
    /\ UNCHANGED << proxyList, options, working, gpVars, tpVars, net, pingVars >>

resetCache ==
    /\ Quiet
    /\ cache' = << >>
    /\ op' = "resetCache"
    /\ ret' = "true"
    /\ UNCHANGED << proxyList, options, working, gpVars, tpVars, net, pingVars >>

\* --------------------------------------------------- Connectivity Prober
MaxTimeoutOf(o) == o.maxTimeout.num

\* instants at which the running request is observed: on and past the budget
TimeSamples(mt) == {mt, mt + 1}

\* variant: the inner catch block forgets controller.abort()
Abort_Missing(r) == r

\* controller.abort(): cancels the request when it is still in flight
Abort(r) == IF r = "inflight" THEN "aborted" ELSE r

\* variant: the duration is not tested after the request has completed
WithinBudget_Always(e, mt) == TRUE

\* the duration test after the request has completed
WithinBudget(e, mt) == ~(e > mt)

\* variant: neither timer is armed
TimerDue_Never(e, mt) == FALSE

\* a timer armed with maxTimeout at the start of the request is due
TimerDue(e, mt) == e >= mt

\* variant: the outer catch block rethrows instead of returning false
ProbeFails_Rethrows(reason) ==
    /\ tp_pc' = "threw"
    /\ tp_result' = FALSE
    /\ tp_diag' = reason
    /\ tp_error' = reason
    /\ silent' = FALSE

\* the outer catch block of testProxy: log the reason, return false
ProbeFails(reason) ==
    /\ tp_pc' = "returned"
    /\ tp_result' = FALSE
    /\ tp_diag' = reason
    /\ tp_error' = tp_error
    /\ silent' = FALSE

\* the end of the try block of testProxy: log the ping, return true
ProbeSucceeds ==
    /\ tp_pc' = "returned"
    /\ tp_result' = TRUE
    /\ tp_diag' = "working"
    /\ tp_error' = tp_error
    /\ silent' = FALSE

\* testProxy(arg) called by the user of the instance
CallTestProxy(arg) ==
    /\ Quiet
    /\ tp_pc' = "validate"
    /\ tp_caller' = "user"
    /\ tp_arg' = arg
    /\ net' = {}
    /\ UNCHANGED << proxyList, cache, options, working, gpVars, tp_proxy, request,
                    elapsed, tp_result, tp_error, tp_diag, silent, syncVars, pingVars >>

TestProxyValidate ==
    /\ tp_pc = "validate"
    /\ LET v == validateOptions(options)
       IN /\ options' = v.options
          /\ IF v.ok
             THEN tp_pc' = "convert" /\ tp_error' = tp_error
             ELSE tp_pc' = "threw" /\ tp_error' = "InvalidOptions"
    /\ UNCHANGED << proxyList, cache, working, gpVars, tp_caller, tp_arg, tp_proxy,
                    request, elapsed, tp_result, tp_diag, silent, net, syncVars,
                    pingVars >>

\* the network activity of a convertProxy(proxy) call
LookupOf(proxy) == IF LooksUp[proxy] THEN {"dns"} ELSE {}

\* `!proxy`, convertProxy and the start of the request and of both timers; the
\* environment decides whether the proxy will ever answer
TestProxyConvert ==
    /\ tp_pc = "convert"
    /\ LET conv == Converted[tp_arg]
       IN IF conv.ok
          THEN /\ tp_pc' = "inflight"
               /\ tp_proxy' = conv.value
               /\ request' = "inflight"
               /\ elapsed' = 0
               /\ tp_error' = tp_error
               /\ net' = net \cup LookupOf(tp_arg) \cup {"http"}
               /\ silent' \in IF conv.value \in working THEN {FALSE} ELSE BOOLEAN
          ELSE /\ tp_pc' = "threw"
               /\ tp_error' = conv.error
               /\ net' = net \cup LookupOf(tp_arg)
               /\ UNCHANGED << tp_proxy, request, elapsed, silent >>
    /\ UNCHANGED << proxyList, cache, options, working, gpVars, tp_caller, tp_arg,
                    tp_result, tp_diag, syncVars, pingVars >>

\* time passes while the request is in flight; a working proxy answers within
\* the budget and before a timer fires, any other proxy answers late or never
Tick ==
    /\ tp_pc = "inflight"
    /\ \E e \in TimeSamples(MaxTimeoutOf(options)) :
          /\ e > elapsed
          /\ tp_proxy \in working => e <= MaxTimeoutOf(options)
          /\ elapsed' = e
    /\ UNCHANGED << proxyList, cache, options, working, gpVars, tp_pc, tp_caller,
                    tp_arg, tp_proxy, request, tp_result, tp_error, tp_diag, silent,
                    net, syncVars, pingVars >>

\* the request resolves: pT.timeout resolves, then the duration is tested
RequestCompletes ==
    /\ tp_pc = "inflight"
    /\ ~silent
    /\ tp_proxy \in working \/ elapsed > MaxTimeoutOf(options)
    /\ request' = "completed"
    /\ IF WithinBudget(elapsed, MaxTimeoutOf(options))
       THEN ProbeSucceeds
       ELSE ProbeFails("timed out after completion")
    /\ UNCHANGED << proxyList, cache, options, working, gpVars, tp_caller, tp_arg,
                    tp_proxy, elapsed, net, syncVars, pingVars >>

\* the request rejects with a transport error
RequestFails ==
    /\ tp_pc = "inflight"
    /\ ~silent
    /\ tp_proxy \notin working
    /\ request' = Abort("failed")
    /\ ProbeFails("transport error")
    /\ UNCHANGED << proxyList, cache, options, working, gpVars, tp_caller, tp_arg,
                    tp_proxy, elapsed, net, syncVars, pingVars >>

\* the timeout of the client fires: axios cancels the request and rejects
ClientTimeout ==
    /\ tp_pc = "inflight"
    /\ tp_proxy \notin working
    /\ TimerDue(elapsed, MaxTimeoutOf(options))
    /\ request' = Abort("aborted")
    /\ ProbeFails("client timeout")
    /\ UNCHANGED << proxyList, cache, options, working, gpVars, tp_caller, tp_arg,
                    tp_proxy, elapsed, net, syncVars, pingVars >>

\* the timer of pT.timeout fires: TimeoutError, then controller.abort()
OuterTimeout ==
    /\ tp_pc = "inflight"
    /\ tp_proxy \notin working
    /\ TimerDue(elapsed, MaxTimeoutOf(options))
    /\ request' = Abort(request)
    /\ ProbeFails("outer timeout")
    /\ UNCHANGED << proxyList, cache, options, working, gpVars, tp_caller, tp_arg,
                    tp_proxy, elapsed, net, syncVars, pingVars >>

\* ------------------------------------------------------ Selection Engine
\* this.#proxyList.filter(cproxy => !this.#cache.includes(cproxy))
Remaining(list, c) == SelectSeq(list, LAMBDA x : ~Includes(c, x))

\* variant: the draw always takes the first remaining candidate
RandomDraw_First(filtered) ==
    IF filtered = << >>
    THEN {Undefined}
    ELSE {filtered[1]}

\* proxyList[Math.floor(Math.random() * proxyList.length)]
RandomDraw(filtered) ==
    IF filtered = << >>
    THEN {Undefined}
    ELSE {filtered[i] : i \in DOMAIN filtered}

\* variant: the catch block never retries
Retries_Never(o) == FALSE

\* variant: the catch block retries whatever forceRetry is
Retries_Always(o) == TRUE

\* the test of the catch block: retry instead of failing
Retries(o) == ForceRetryOn(o)

\* the throw once the drawn address is found in the cache
ExhaustedAt(c, list) == Len(c) = Len(list)

\* the catch block of getProxy, entered with error e
Catch(e) ==
    IF Retries(options)
    THEN /\ cache' = << >>
         /\ gp_pc' = "validate"
         /\ gp_error' = gp_error
    ELSE /\ cache' = cache
         /\ gp_pc' = "failed"
         /\ gp_error' = e

CallGetProxy ==
    /\ Quiet
    /\ gp_pc' = "validate"
    /\ net' = {}
    /\ UNCHANGED << proxyList, cache, options, working, gp_drawn, gp_result, gp_error,
                    probes, tpVars, syncVars, pingVars >>

\* validateOptions, outside the try block
GetProxyValidate ==
    /\ gp_pc = "validate"
    /\ LET v == validateOptions(options)
       IN /\ options' = v.options
          /\ IF v.ok
             THEN gp_pc' = "draw" /\ gp_error' = gp_error
             ELSE gp_pc' = "failed" /\ gp_error' = "InvalidOptions"
    /\ UNCHANGED << proxyList, cache, working, gp_drawn, gp_result, probes, tpVars,
                    net, syncVars, pingVars >>

\* the call this.testProxy(proxy)
StartProbe(proxy) ==
    /\ gp_pc' = "probing"
    /\ gp_error' = gp_error
    /\ probes' = IF probes < MaxProbes THEN probes + 1 ELSE probes
    /\ tp_pc' = "validate"
    /\ tp_caller' = "getProxy"
    /\ tp_arg' = proxy
    /\ tp_proxy' = Undefined
    /\ request' = "none"
    /\ elapsed' = 0
    /\ tp_result' = FALSE
    /\ tp_error' = "none"
    /\ tp_diag' = "none"
    /\ silent' = FALSE

\* variant: the membership test of the cache always answers no
AlreadyTested_Never(c, proxy) == FALSE

\* this.#cache.includes(proxy)
AlreadyTested(c, proxy) == Includes(c, proxy)

\* variant: the address is not recorded before it is probed
Marked_Not(c, proxy) == c

\* this.#cache.push(proxy)
Marked(c, proxy) == Append(c, proxy)

\* filter, draw, convertProxy and the cache test, up to the call of testProxy
GetProxyDraw(drawn) ==
    /\ gp_pc = "draw"
    /\ drawn \in RandomDraw(Remaining(proxyList, cache))
    /\ gp_drawn' = drawn
    /\ LET conv == Converted[drawn]
       IN IF ~conv.ok
          THEN Catch(conv.error) /\ UNCHANGED << probes, tpVars >>
          ELSE IF ~AlreadyTested(cache, conv.value)
          THEN cache' = Marked(cache, conv.value) /\ StartProbe(conv.value)
          ELSE IF ExhaustedAt(cache, proxyList)
          THEN Catch("AllProxiesFailed") /\ UNCHANGED << probes, tpVars >>
          ELSE cache' = cache /\ StartProbe(conv.value)
    /\ net' = net \cup LookupOf(drawn)
    /\ UNCHANGED << proxyList, options, working, gp_result, syncVars, pingVars >>

\* variant: the result of testProxy is not looked at
workingProxy_Ignored == TRUE

\* let workingProxy = await this.testProxy(proxy)
workingProxy == tp_result

\* testProxy has settled: return the address, recurse, or enter the catch block
GetProxyAfterProbe ==
    /\ gp_pc = "probing"
    /\ tp_pc \in {"returned", "threw"}
    /\ IF tp_pc = "threw"
       THEN Catch(tp_error) /\ gp_result' = gp_result
       ELSE IF workingProxy
       THEN gp_pc' = "done" /\ gp_result' = tp_arg /\ UNCHANGED << cache, gp_error >>
       ELSE gp_pc' = "validate" /\ UNCHANGED << cache, gp_error, gp_result >>
    /\ UNCHANGED << proxyList, options, working, gp_drawn, probes, tpVars, net,
                    syncVars, pingVars >>

\* ----------------------------------------------------------------- getPing
\* timeout: 30 * 10000
PingTimeout == 30 * 10000

\* durations EndTime - StartTime of an answered request
PingSamples == {0, PingTimeout}

CallGetPing ==
    /\ Quiet
    /\ ping_pc' = "validate"
    /\ net' = {}
    /\ UNCHANGED << proxyList, cache, options, working, gpVars, tpVars, syncVars,
                    ping_ms >>

\* validateOptions, then the request to pingUrl without a proxy
GetPingValidate ==
    /\ ping_pc = "validate"
    /\ LET v == validateOptions(options)
       IN /\ options' = v.options
          /\ IF v.ok
             THEN ping_pc' = "inflight" /\ net' = net \cup {"http"}
             ELSE ping_pc' = "threw" /\ net' = net
    /\ UNCHANGED << proxyList, cache, working, gpVars, tpVars, syncVars, ping_ms >>

\* the request resolves: return EndTime - StartTime
GetPingCompletes(d) ==
    /\ ping_pc = "inflight"
    /\ ping_pc' = "returned"
    /\ ping_ms' = d
    /\ UNCHANGED << proxyList, cache, options, working, gpVars, tpVars, syncVars, net >>

\* the request rejects or times out: throw "Failed to get ping"
GetPingFails ==
    /\ ping_pc = "inflight"
    /\ ping_pc' = "threw"
    /\ UNCHANGED << proxyList, cache, options, working, gpVars, tpVars, syncVars, net,
                    ping_ms >>

GetPingStep ==
    \/ GetPingValidate
    \/ \E d \in PingSamples : GetPingCompletes(d)
    \/ GetPingFails

\* the outermost call has settled or returned and its caller takes the result
CallerResumes ==
    /\ \/ gp_pc \in {"done", "failed"}
       \/ tp_caller = "user" /\ tp_pc \in {"returned", "threw"}
       \/ ping_pc \in {"returned", "threw"}
       \/ op # "none"
    /\ GpCleared /\ TpCleared
    /\ net' = {}
    /\ op' = "none" /\ ret' = "none"
    /\ ping_pc' = "idle" /\ ping_ms' = 0
    /\ UNCHANGED << proxyList, cache, options, working >>

TestProxyStep ==
    \/ TestProxyValidate
    \/ TestProxyConvert
    \/ Tick
    \/ RequestCompletes
    \/ RequestFails
    \/ ClientTimeout
    \/ OuterTimeout

GetProxyStep ==
    \/ GetProxyValidate
    \/ \E drawn \in Candidates \cup {Undefined} : GetProxyDraw(drawn)
    \/ GetProxyAfterProbe

Next ==
    \/ resetList
    \/ \E arg \in AddArgs : addProxies(arg)
    \/ resetCache
    \/ \E arg \in Candidates \cup {Undefined} : CallTestProxy(arg)
    \/ CallGetProxy
    \/ CallGetPing
    \/ TestProxyStep
    \/ GetProxyStep
    \/ GetPingStep
    \/ CallerResumes

Spec == Init /\ [][Next]_vars

\* the runtime settles every promise and fires every timer of a running call,
\* and Math.random does not avoid a candidate for ever
FairSpec ==
    /\ Spec
    /\ WF_vars(TestProxyStep)
    /\ WF_vars(GetProxyStep)
    /\ WF_vars(GetPingStep)
    /\ \A drawn \in Candidates \cup {Undefined} : SF_vars(GetProxyDraw(drawn))

\* the runtime runs every enabled continuation and fires every due timer of a
\* running testProxy; nothing is assumed about the draws of getProxy
ProbeFairSpec == Spec /\ WF_vars(TestProxyStep)

\* ----------------------------------------------------------- properties
\* the options pass validateOptions
ValidOptions == OptionsOk(FillDefaults(options))

\* the value of options.forceRetry once defaulted
ForceRetry == ForceRetryOn(FillDefaults(options))

\* a getProxy call is running
InGetProxy == gp_pc \in {"validate", "draw", "probing"}

\* every candidate of the list is well-formed and resolvable
AllConvertible(list) == \A i \in DOMAIN list : Converted[list[i]].ok

\* the normalized forms of the candidates of the list
NormalizedOf(list) ==
    {Converted[list[i]].value : i \in {j \in DOMAIN list : Converted[list[j]].ok}}

\* C1: with forceRetry=false every getProxy call eventually returns an address
\* or fails with an error, whatever the candidates, the cache and the probes.
C1_GetProxyTerminates ==
    [](InGetProxy /\ ~ForceRetry => <>(gp_pc \in {"done", "failed"}))

\* C2: with forceRetry=false a getProxy call makes at most |CandidateList|
\* calls of testProxy.
C2_AtMostListLengthProbes ==
    ~ForceRetry => probes <= Len(proxyList)

\* C3: getProxy never starts a probe of an address that is already in
\* TestedCache when the candidate is drawn.
C3_NoProbeOfCachedAddress ==
    [][gp_pc = "draw" /\ gp_pc' = "probing" => ~Includes(cache, tp_arg')]_vars

\* C4: when every candidate is well-formed and resolvable, the options are
\* valid and forceRetry=false, a failing getProxy fails with AllProxiesFailed
\* (the empty list included).
C4_FailsWithAllProxiesFailed ==
    gp_pc = "failed" /\ ValidOptions /\ ~ForceRetry /\ AllConvertible(proxyList)
        => gp_error = "AllProxiesFailed"

DistinctWorking ==
    /\ ValidOptions
    /\ Len(proxyList) >= 1
    /\ AllConvertible(proxyList)
    /\ Cardinality(NormalizedOf(proxyList)) = Len(proxyList)
    /\ NormalizedOf(proxyList) \subseteq working

\* C6: on a list of N distinct working proxies a call returns one of the N
\* normalized addresses, a call started on an empty cache does not fail (a
\* failed call has probed nothing and found the cache non-empty), and on an
\* empty cache every candidate of the list can be the one drawn.
C6_DrawsAmongAllWorking ==
    DistinctWorking =>
        /\ gp_pc = "done" => gp_result \in NormalizedOf(proxyList)
        /\ gp_pc = "failed" => probes = 0 /\ cache # << >>
        /\ gp_pc = "draw" /\ cache = << >> =>
              \A i \in DOMAIN proxyList : ENABLED GetProxyDraw(proxyList[i])

\* a call on an empty cache returned the address of the second of two candidates
C6_Witness ==
    /\ DistinctWorking
    /\ Len(proxyList) = 2
    /\ gp_pc = "done"
    /\ gp_result = Converted[proxyList[2]].value
    /\ cache = << gp_result >>

\* C7: with forceRetry=true, a non-empty list of well-formed candidates and no
\* working proxy, a running getProxy call clears TestedCache again and again:
\* the cache is eventually empty and eventually non-empty, from every point on.
C7_CacheClearedAgainAndAgain ==
    [](/\ InGetProxy /\ ValidOptions /\ ForceRetry
       /\ proxyList # << >> /\ AllConvertible(proxyList)
       /\ NormalizedOf(proxyList) \cap working = {}
       => <>(cache = << >>) /\ <>(cache # << >>))

\* C8: with forceRetry=true and valid options getProxy never fails, and it
\* completes only with an address whose probe succeeded (so never when no
\* proxy works).
C8_ForceRetryNeverFails ==
    ValidOptions /\ ForceRetry =>
        /\ gp_pc # "failed"
        /\ gp_pc = "done" =>
              tp_result /\ tp_proxy = gp_result /\ gp_result \in working

\* the catch block has cleared the cache after a probe and the call goes on
C8_Witness ==
    /\ ValidOptions /\ ForceRetry
    /\ gp_pc = "validate" /\ probes >= 1 /\ cache = << >>

\* the step in which getProxy draws a candidate that fails normalization
DrawFailsNormalization ==
    /\ gp_pc = "draw" /\ gp_pc' # "draw"
    /\ Truthy(gp_drawn') /\ ~Converted[gp_drawn'].ok

\* C9 as stated: a drawn candidate that fails normalization makes getProxy
\* fail with that error, whatever forceRetry is.
C9_NormalizationErrorFails ==
    [][DrawFailsNormalization
          => gp_pc' = "failed" /\ gp_error' = Converted[gp_drawn'].error]_vars

\* C9 amended: with forceRetry=false the call fails with the normalization
\* error and leaves the cache alone; with forceRetry=true the error is caught,
\* the cache is cleared and the call goes on with another draw.
C9_NormalizationErrorFailsUnlessForceRetry ==
    [][DrawFailsNormalization =>
          IF ForceRetry
          THEN gp_pc' = "validate" /\ cache' = << >> /\ gp_error' = "none"
          ELSE /\ gp_pc' = "failed"
               /\ gp_error' = Converted[gp_drawn'].error
               /\ cache' = cache]_vars

\* with forceRetry=true the call draws again after a malformed or unresolvable
\* candidate was drawn
C9_Witness ==
    /\ ForceRetry
    /\ gp_pc = "draw"
    /\ Truthy(gp_drawn) /\ ~Converted[gp_drawn].ok

\* C10: with valid options and a well-formed, resolvable argument testProxy
\* does not fail with an error, and a request that failed, was cancelled by a
\* timeout or completed late gives the result false.
C10_TestProxyNeverThrows ==
    /\ tp_pc = "threw" => ~ValidOptions \/ ~Converted[tp_arg].ok
    /\ tp_pc = "returned" /\ (request # "completed" \/ elapsed > MaxTimeoutOf(options))
          => tp_result = FALSE

\* a user call on a host-name candidate ended by the outer timeout
C10_Witness ==
    /\ tp_caller = "user" /\ tp_pc = "returned"
    /\ tp_arg = CandHostA
    /\ tp_diag = "outer timeout" /\ request = "aborted"
    /\ tp_result = FALSE

\* C11: testProxy returns true only when the request completed without a
\* transport error, no timeout fired before the completion, and the observed
\* duration does not exceed maxTimeout; in every other case it returns false.
C11_TrueOnlyWithinBudget ==
    tp_pc = "returned" =>
        /\ tp_result =>
              /\ request = "completed"
              /\ tp_diag = "working"
              /\ elapsed <= MaxTimeoutOf(options)
        /\ ( \/ request # "completed"
             \/ tp_diag \in {"transport error", "client timeout", "outer timeout"}
             \/ elapsed > MaxTimeoutOf(options) ) => ~tp_result

\* a request that completed after the budget without any timer having fired
C11_Witness ==
    /\ tp_pc = "returned"
    /\ request = "completed"
    /\ elapsed > MaxTimeoutOf(options)
    /\ ~tp_result

\* C12: whichever timeout fires first, the request is cancelled: when testProxy
\* returns, no request issued by it is still in flight.
C12_NoRequestLeftInFlight ==
    /\ tp_pc \in {"returned", "threw"} => request # "inflight"
    /\ tp_pc = "returned" /\ tp_diag \in {"client timeout", "outer timeout"}
          => request = "aborted"

\* the probe of getProxy ended by the outer timer with the request cancelled
C12_Witness ==
    /\ tp_pc = "returned"
    /\ tp_caller = "getProxy"
    /\ tp_diag = "outer timeout"
    /\ request = "aborted"

\* C13: a request that never completes on its own does not keep testProxy from
\* returning: it eventually returns, and it returns false.
C13_SilentProxyReturnsFalse ==
    (tp_pc = "inflight" /\ silent) ~> (tp_pc = "returned" /\ ~tp_result)

\* the request of a proxy that never answers is in flight past the budget
C13_Witness ==
    tp_pc = "inflight" /\ silent /\ elapsed > MaxTimeoutOf(options)

\* what C14 states of one addProxies(arg) call
AddProxiesAsStated(arg) ==
    IF Rejected(arg)
    THEN ret' = "false" /\ proxyList' = proxyList
    ELSE ret' = "true" /\ proxyList' = proxyList \o arg.items

\* C14 as stated: addProxies(list) returns false and leaves the list unchanged
\* when list is missing, not a sequence or empty; otherwise it returns true and
\* the new list is the old list followed by the elements of list in order.
C14_AddProxiesAppends ==
    [][\A arg \in AddArgs : addProxies(arg) => AddProxiesAsStated(arg)]_vars

\* C14 amended: the statement holds when the options are valid; with an option
\* of the wrong type addProxies fails with the configuration error, whatever
\* its argument, and leaves the list unchanged.
C14_AddProxiesAppendsWithValidOptions ==
    [][\A arg \in AddArgs :
          addProxies(arg) =>
              IF ValidOptions
              THEN AddProxiesAsStated(arg)
              ELSE ret' = "threw" /\ proxyList' = proxyList]_vars

\* addProxies has returned true with a list of at least two candidates
C14_Witness ==
    /\ op = "addProxies"
    /\ ret = "true"
    /\ ValidOptions
    /\ Len(proxyList) >= 2
    /\ proxyList[1] # proxyList[Len(proxyList)]

\* C15: resetList returns false exactly when the list is already empty and true
\* otherwise; after either outcome the list is empty; it never fails.
C15_ResetListEmpties ==
    [][resetList =>
          /\ ret' = "false" <=> proxyList = << >>
          /\ ret' = "true" <=> proxyList # << >>
          /\ proxyList' = << >>]_vars

\* resetList has returned false on an instance whose options are invalid
C15_Witness ==
    op = "resetList" /\ ret = "false" /\ proxyList = << >> /\ ~ValidOptions

\* C16: resetCache, in any state, empties the cache, returns true and leaves the
\* list unchanged; after it every candidate of the list can be drawn again.
C16_ResetCacheEmpties ==
    [][resetCache =>
          /\ cache' = << >>
          /\ ret' = "true"
          /\ proxyList' = proxyList
          /\ \A i \in DOMAIN proxyList' :
                proxyList'[i] \in RandomDraw(Remaining(proxyList', cache'))]_vars

\* resetCache has returned on an instance that holds candidates
C16_Witness ==
    op = "resetCache" /\ ret = "true" /\ cache = << >> /\ Len(proxyList) >= 2

\* an option field is present with a type other than the documented one
WrongType(o) ==
    \/ typeof(o.verbose) \notin {"undefined", "boolean"}
    \/ typeof(o.maxTimeout) \notin {"undefined", "number"}
    \/ typeof(o.verboseIdentifier) \notin {"undefined", "string"}
    \/ typeof(o.pingUrl) \notin {"undefined", "string"}
    \/ typeof(o.forceRetry) \notin {"undefined", "boolean"}

\* a getProxy, testProxy or getPing call is running or has just ended
InCall == gp_pc # "idle" \/ tp_pc # "idle" \/ ping_pc # "idle"

\* C17: with an option field of the wrong type, getProxy, testProxy and getPing
\* each fail with the configuration error before any DNS lookup or HTTP request
\* is issued and leave the list and the cache unchanged, also with forceRetry.
C17_ConfigurationErrorBeforeNetwork ==
    [][WrongType(options) =>
          /\ gp_pc = "validate" => gp_pc' = "failed" /\ gp_error' = "InvalidOptions"
          /\ tp_pc = "validate" => tp_pc' = "threw" /\ tp_error' = "InvalidOptions"
          /\ ping_pc = "validate" => ping_pc' = "threw"
          /\ gp_pc' \in {"idle", "validate", "failed"}
          /\ tp_pc' \in {"idle", "validate", "threw"}
          /\ ping_pc' \in {"idle", "validate", "threw"}
          /\ net' = {}
          /\ InCall' => proxyList' = proxyList /\ cache' = cache]_vars

\* getProxy has failed with the configuration error although forceRetry is set
C17_Witness ==
    /\ WrongType(options)
    /\ ForceRetryOn(options)
    /\ gp_pc = "failed"
    /\ gp_error = "InvalidOptions"
    /\ net = {}
    /\ Len(proxyList) >= 1

\* C18: marking is optimistic: while a probe started by getProxy runs for an
\* address, the address is in the cache, and an address that getProxy returns
\* is in the cache.
C18_ProbedAddressIsCached ==
    /\ gp_pc = "probing" => Includes(cache, tp_arg)
    /\ gp_pc = "probing" /\ tp_pc = "inflight" => Includes(cache, tp_proxy)
    /\ gp_pc = "done" => Includes(cache, gp_result)

\* the request of the probe of the second address of the cache is in flight
C18_Witness ==
    /\ gp_pc = "probing"
    /\ tp_pc = "inflight"
    /\ Len(cache) = 2
    /\ cache[2] = tp_proxy

\* C19: the cache never holds the same normalized address twice.
C19_CacheHasNoDuplicates ==
    \A i, j \in DOMAIN cache : i # j => cache[i] # cache[j]

\* a cached address has been drawn and probed again without a second entry
C19_Witness ==
    /\ ~ForceRetry
    /\ gp_pc = "probing"
    /\ probes >= 2
    /\ Len(cache) = 1

\* C20: resetList, addProxies, testProxy and getPing leave the cache unchanged;
\* getProxy, testProxy, getPing and resetCache leave the list unchanged; only
\* getProxy and resetCache modify the cache.
C20_Frames ==
    [][/\ ( \/ op' \in {"resetList", "addProxies"}
            \/ tp_caller' = "user"
            \/ ping_pc' # "idle" ) => cache' = cache
       /\ ( \/ gp_pc' # "idle"
            \/ tp_caller' = "user"
            \/ ping_pc' # "idle"
            \/ op' = "resetCache" ) => proxyList' = proxyList
       /\ cache' # cache => gp_pc' # "idle" \/ op' = "resetCache"]_vars

\* resetList has emptied the list of an instance and its cache still has entries
C20_Witness ==
    op = "resetList" /\ ret = "true" /\ proxyList = << >> /\ cache # << >>

====
